---------------------------- MODULE Spec2Model ----------------------------
(***************************************************************************)
(* A model of src/LngLat.js: the LngLat point type, its great-circle and   *)
(* rhumb-line formulae, the bounding-box test and the number formatting    *)
(* helper Number.prototype.toPrecisionFixed.                               *)
(*                                                                         *)
(* JavaScript numbers are modelled as decimal fixed-point numbers with     *)
(* four fractional digits (the integer n stands for n / SCALE), plus NaN   *)
(* and the two infinities.  Every arithmetic result is rounded to the      *)
(* nearest representable value, half away from zero, which keeps the       *)
(* symmetries IEEE-754 arithmetic has (x*y = y*x, sin(-x) = -sin(x)).      *)
(* A result beyond the largest finite value, MaxFinite / SCALE, overflows  *)
(* to an infinity.  The sign of zero is not modelled.                      *)
(***************************************************************************)
EXTENDS Integers, Sequences, FiniteSets, TLC

(***************************************************************************)
(* JavaScript evaluates an argument or the right-hand side of a var once,  *)
(* before it is used.  With(e, LAMBDA x : body) is body with x standing    *)
(* for the value of e, computed once.                                      *)
(***************************************************************************)
With(e, F(_)) == CHOOSE r \in {F(x) : x \in {e}} : TRUE

With2(e1, e2, F(_, _)) == CHOOSE r \in {F(x, y) : x \in {e1}, y \in {e2}} : TRUE

(***************************************************************************)
(* Fixed-point arithmetic on integers.                                     *)
(***************************************************************************)
SCALE == 10^4

Abs(x) == IF x < 0 THEN -x ELSE x

Sgn(x) == IF x < 0 THEN -1 ELSE IF x > 0 THEN 1 ELSE 0

Pow10(k) == 10^k

\* a / b for integers, rounded to the nearest integer, half away from zero
RoundDiv(a0, b0) ==
  With2(a0, b0, LAMBDA a, b :
    Sgn(a) * Sgn(b) * ((2 * Abs(a) + Abs(b)) \div (2 * Abs(b))))

\* the fixed-point product a*b, computed in parts that stay within TLC's integers
FMul(a0, b0) ==
  With2(a0, b0, LAMBDA a, b :
    Sgn(a) * Sgn(b) *
      ((Abs(a) \div SCALE) * (Abs(b) \div SCALE) * SCALE
       + (Abs(a) \div SCALE) * (Abs(b) % SCALE)
       + (Abs(a) % SCALE) * (Abs(b) \div SCALE)
       + ((Abs(a) % SCALE) * (Abs(b) % SCALE) + SCALE \div 2) \div SCALE))

\* the digits of r/b after the decimal point, by long division (b > 0, 0 <= r < b),
\* the last one rounded
RECURSIVE LongDiv(_, _, _, _)
LongDiv(r0, b, n, acc0) ==
  With2(r0, acc0, LAMBDA r, acc :
    IF n = 0 THEN IF 2 * r >= b THEN acc + 1 ELSE acc
    ELSE LongDiv((r * 10) % b, b, n - 1, acc * 10 + (r * 10) \div b))

\* the fixed-point quotient a/b (b # 0, the quotient within range); a divisor
\* too large for the long division is first cut by a digit, with the dividend
RECURSIVE FDiv(_, _)
FDiv(a0, b0) ==
  With2(a0, b0, LAMBDA a, b :
    IF Abs(b) > 2 * 10^8 THEN FDiv(RoundDiv(a, 10), RoundDiv(b, 10))
    ELSE Sgn(a) * Sgn(b) *
           ((Abs(a) \div Abs(b)) * SCALE + LongDiv(Abs(a) % Abs(b), Abs(b), 4, 0)))

\* the largest integer whose square is at most n, by bisection
RECURSIVE ISqrtIn(_, _, _)
ISqrtIn(n, lo0, hi0) ==
  With2(lo0, hi0, LAMBDA lo, hi :
    IF lo >= hi THEN lo
    ELSE With((lo + hi + 1) \div 2, LAMBDA mid :
           IF mid * mid <= n THEN ISqrtIn(n, mid, hi) ELSE ISqrtIn(n, lo, mid - 1)))

ISqrt(n) == ISqrtIn(n, 0, 46340)

\* the fixed-point square root of a >= 0
FSqrt(a0) ==
  With(a0, LAMBDA a : IF a < 200000 THEN ISqrt(a * SCALE) ELSE ISqrt(a) * 100)

(***************************************************************************)
(* Math.PI and the elementary functions, on fixed-point integers.          *)
(***************************************************************************)
PI == 31416

TWOPI == 2 * PI

HALFPI == PI \div 2

\* sin on 0..PI/4 and cos on 0..PI/4, by their Taylor series
SinSeries(x) ==
  With(FMul(x, x), LAMBDA x2 :
  With(FMul(x2, x), LAMBDA x3 :
  With(FMul(x3, x2), LAMBDA x5 :
  With(FMul(x5, x2), LAMBDA x7 :
    x - RoundDiv(x3, 6) + RoundDiv(x5, 120) - RoundDiv(x7, 5040)))))

CosSeries(x) ==
  With(FMul(x, x), LAMBDA x2 :
  With(FMul(x2, x2), LAMBDA x4 :
  With(FMul(x4, x2), LAMBDA x6 :
  With(FMul(x4, x4), LAMBDA x8 :
    SCALE - RoundDiv(x2, 2) + RoundDiv(x4, 24) - RoundDiv(x6, 720)
      + RoundDiv(x8, 40320)))))

\* sin on 0..PI/2
SinQuadrant(x0) ==
  With(x0, LAMBDA x :
    IF 2 * x <= HALFPI THEN SinSeries(x) ELSE CosSeries(HALFPI - x))

\* sin of any x >= 0
SinNonNeg(x) ==
  With(x % TWOPI, LAMBDA r :
    IF r <= HALFPI THEN SinQuadrant(r)
    ELSE IF r <= PI THEN SinQuadrant(PI - r)
    ELSE IF r <= PI + HALFPI THEN -SinQuadrant(r - PI)
    ELSE -SinQuadrant(TWOPI - r))

ISin(x0) == With(x0, LAMBDA x : Sgn(x) * SinNonNeg(Abs(x)))

ICos(x0) == With(x0, LAMBDA x : SinNonNeg(Abs(x) + HALFPI))

\* atan on 0..0.2, by its Taylor series
AtanSeries(z0) ==
  With(z0, LAMBDA z :
  With(FMul(z, z), LAMBDA z2 :
  With(FMul(z2, z), LAMBDA z3 :
  With(FMul(z3, z2), LAMBDA z5 :
  With(FMul(z5, z2), LAMBDA z7 :
    z - RoundDiv(z3, 3) + RoundDiv(z5, 5) - RoundDiv(z7, 7))))))

\* tan(a/2) from z = tan(a), 0 <= z <= 1
HalfAngle(z0) ==
  With(z0, LAMBDA z : FDiv(z, SCALE + FSqrt(SCALE + FMul(z, z))))

\* atan of z, 0 <= z <= 1
AtanUnit(z) == 4 * AtanSeries(HalfAngle(HalfAngle(z)))

\* atan2 of finite y, x, as Math.atan2 gives it (-PI..PI)
IAtan2(y0, x0) ==
  With2(y0, x0, LAMBDA y, x :
    With(IF y = 0 THEN 0
         ELSE IF x = 0 THEN HALFPI
         ELSE IF Abs(y) <= Abs(x) THEN AtanUnit(FDiv(Abs(y), Abs(x)))
         ELSE HALFPI - AtanUnit(FDiv(Abs(x), Abs(y))), LAMBDA a :
      With(IF x < 0 THEN PI - a ELSE a, LAMBDA b :
        IF y < 0 THEN -b ELSE b)))

LN2 == 6931

\* ln of m, 1 <= m <= 2, as 2*atanh((m-1)/(m+1))
LnSeries(m) ==
  With(FDiv(m - SCALE, m + SCALE), LAMBDA y :
  With(FMul(y, y), LAMBDA y2 :
  With(FMul(y2, y), LAMBDA y3 :
  With(FMul(y3, y2), LAMBDA y5 :
  With(FMul(y5, y2), LAMBDA y7 :
    2 * (y + RoundDiv(y3, 3) + RoundDiv(y5, 5) + RoundDiv(y7, 7)))))))

\* ln of x > 0, after scaling x into 1..2 by powers of two
RECURSIVE ILn(_)
ILn(x0) ==
  With(x0, LAMBDA x :
    IF x > 2 * SCALE THEN LN2 + ILn(RoundDiv(x, 2))
    ELSE IF x < SCALE THEN ILn(2 * x) - LN2
    ELSE LnSeries(x))

(***************************************************************************)
(* JavaScript values.  Every value is a record with the same four fields:  *)
(* t is what typeof gives, k the kind of a number (fin, nan, inf) or of an *)
(* object, v a number's fixed-point value (the sign, for an infinity) and  *)
(* s the characters of a string.                                           *)
(***************************************************************************)
Num(n) == [t |-> "number", k |-> "fin", v |-> n, s |-> <<>>]

IntNum(n) == Num(n * SCALE)

NaN == [t |-> "number", k |-> "nan", v |-> 0, s |-> <<>>]

Inf(sign) == [t |-> "number", k |-> "inf", v |-> sign, s |-> <<>>]

Str(chars) == [t |-> "string", k |-> "", v |-> 0, s |-> chars]

Undefined == [t |-> "undefined", k |-> "", v |-> 0, s |-> <<>>]

Null == [t |-> "object", k |-> "null", v |-> 0, s |-> <<>>]

Bool(b) == [t |-> "boolean", k |-> "", v |-> IF b THEN 1 ELSE 0, s |-> <<>>]

typeof(x) == x.t

isNaN(x) == x.k = "nan"

IsFinite(x) == x.t = "number" /\ x.k = "fin"

\* the largest finite number of the model, 100000, as a fixed-point integer
MaxFinite == 10^9

\* a finite result, or the infinity it overflows to
Finite(n0) == With(n0, LAMBDA n : IF Abs(n) > MaxFinite THEN Inf(Sgn(n)) ELSE Num(n))

\* the sign of a number that is not NaN
NSign(a) == Sgn(a.v)

NNeg(a0) == With(a0, LAMBDA a : IF a.k = "nan" THEN NaN ELSE [a EXCEPT !.v = -a.v])

NAdd(a0, b0) ==
  With2(a0, b0, LAMBDA a, b :
    IF a.k = "nan" \/ b.k = "nan" THEN NaN
    ELSE IF a.k = "inf" /\ b.k = "inf" THEN IF a.v = b.v THEN a ELSE NaN
    ELSE IF a.k = "inf" THEN a
    ELSE IF b.k = "inf" THEN b
    ELSE Finite(a.v + b.v))

NSub(a, b) == NAdd(a, NNeg(b))

NMul(a0, b0) ==
  With2(a0, b0, LAMBDA a, b :
    IF a.k = "nan" \/ b.k = "nan" THEN NaN
    ELSE IF a.k = "inf" \/ b.k = "inf"
         THEN IF NSign(a) * NSign(b) = 0 THEN NaN ELSE Inf(NSign(a) * NSign(b))
    ELSE IF b.v # 0 /\ Abs(a.v) \div SCALE > MaxFinite \div Abs(b.v)
         THEN Inf(NSign(a) * NSign(b))
    ELSE Finite(FMul(a.v, b.v)))

NDiv(a0, b0) ==
  With2(a0, b0, LAMBDA a, b :
    IF a.k = "nan" \/ b.k = "nan" THEN NaN
    ELSE IF a.k = "inf"
         THEN IF b.k = "inf" THEN NaN
              ELSE Inf(IF b.v < 0 THEN -a.v ELSE a.v)
    ELSE IF b.k = "inf" THEN Num(0)
    ELSE IF b.v = 0 THEN IF a.v = 0 THEN NaN ELSE Inf(Sgn(a.v))
    ELSE IF Abs(a.v) \div Abs(b.v) >= MaxFinite \div SCALE
         THEN Inf(NSign(a) * NSign(b))
    ELSE Finite(FDiv(a.v, b.v)))

\* the % operator: the result has the sign of the dividend
NMod(a0, b0) ==
  With2(a0, b0, LAMBDA a, b :
    IF a.k # "fin" \/ b.k = "nan" THEN NaN
    ELSE IF b.k = "inf" THEN a
    ELSE IF b.v = 0 THEN NaN
    ELSE Num(Sgn(a.v) * (Abs(a.v) % Abs(b.v))))

\* a place on the number line for a number that is not NaN
NKey(a) == IF a.k = "inf" THEN a.v * 2147483647 ELSE a.v

NLt(a0, b0) ==
  With2(a0, b0, LAMBDA a, b : a.k # "nan" /\ b.k # "nan" /\ NKey(a) < NKey(b))

NGt(a, b) == NLt(b, a)

NLe(a0, b0) ==
  With2(a0, b0, LAMBDA a, b : a.k # "nan" /\ b.k # "nan" /\ NKey(a) <= NKey(b))

NGe(a, b) == NLe(b, a)

NEq(a0, b0) ==
  With2(a0, b0, LAMBDA a, b : a.k # "nan" /\ b.k # "nan" /\ NKey(a) = NKey(b))

MathAbs(a0) == With(a0, LAMBDA a : IF a.k = "nan" THEN NaN ELSE [a EXCEPT !.v = Abs(a.v)])

MathSin(a0) == With(a0, LAMBDA a : IF a.k # "fin" THEN NaN ELSE Num(ISin(a.v)))

MathCos(a0) == With(a0, LAMBDA a : IF a.k # "fin" THEN NaN ELSE Num(ICos(a.v)))

\* sin/cos; where the model's cosine is exactly zero the quotient is infinite
MathTan(a0) == With(a0, LAMBDA a : NDiv(MathSin(a), MathCos(a)))

MathSqrt(a0) ==
  With(a0, LAMBDA a :
    IF a.k = "nan" THEN NaN
    ELSE IF a.k = "inf" THEN IF a.v > 0 THEN a ELSE NaN
    ELSE IF a.v < 0 THEN NaN
    ELSE Num(FSqrt(a.v)))

MathAtan2(y0, x0) ==
  With2(y0, x0, LAMBDA y, x :
    IF y.k = "nan" \/ x.k = "nan" THEN NaN
    ELSE IF y.k = "inf" /\ x.k = "inf"
         THEN Num(y.v * (IF x.v > 0 THEN HALFPI \div 2 ELSE PI - HALFPI \div 2))
    ELSE IF y.k = "inf" THEN Num(y.v * HALFPI)
    ELSE IF x.k = "inf"
         THEN IF x.v > 0 THEN Num(0) ELSE Num(IF y.v < 0 THEN -PI ELSE PI)
    ELSE Num(IAtan2(y.v, x.v)))

MathAsin(a0) ==
  With(a0, LAMBDA a :
    IF a.k # "fin" \/ Abs(a.v) > SCALE THEN NaN
    ELSE Num(IAtan2(a.v, FSqrt(SCALE - FMul(a.v, a.v)))))

MathAcos(a0) ==
  With(a0, LAMBDA a :
    IF a.k # "fin" \/ Abs(a.v) > SCALE THEN NaN
    ELSE Num(IAtan2(FSqrt(SCALE - FMul(a.v, a.v)), a.v)))

MathLog(a0) ==
  With(a0, LAMBDA a :
    IF a.k = "nan" THEN NaN
    ELSE IF a.k = "inf" THEN IF a.v > 0 THEN a ELSE NaN
    ELSE IF a.v < 0 THEN NaN
    ELSE IF a.v = 0 THEN Inf(-1)
    ELSE Num(ILn(a.v)))

(***************************************************************************)
(* Strings, as sequences of characters, and their conversion to numbers.   *)
(***************************************************************************)
Digits == <<"0", "1", "2", "3", "4", "5", "6", "7", "8", "9">>

IsDigit(c) == \E i \in 1..10 : Digits[i] = c

DigitVal(c) == (CHOOSE i \in 1..10 : Digits[i] = c) - 1

IsSpace(c) == c = " "

RECURSIVE TrimLeft(_)
TrimLeft(s0) ==
  With(s0, LAMBDA s : IF s # <<>> /\ IsSpace(Head(s)) THEN TrimLeft(Tail(s)) ELSE s)

RECURSIVE TrimRight(_)
TrimRight(s0) ==
  With(s0, LAMBDA s :
    IF s # <<>> /\ IsSpace(s[Len(s)]) THEN TrimRight(SubSeq(s, 1, Len(s) - 1)) ELSE s)

\* String.prototype.trim
trim(s) == TrimRight(TrimLeft(s))

AllDigits(s) == \A i \in 1..Len(s) : IsDigit(s[i])

\* the integer a sequence of digits writes
RECURSIVE DigitsToInt(_)
DigitsToInt(s0) ==
  With(s0, LAMBDA s :
    IF s = <<>> THEN 0
    ELSE DigitsToInt(SubSeq(s, 1, Len(s) - 1)) * 10 + DigitVal(s[Len(s)]))

\* the digits after a decimal point as a fixed-point fraction
FracToFixed(s0) ==
  With(s0, LAMBDA s :
    IF Len(s) <= 4 THEN DigitsToInt(s) * Pow10(4 - Len(s))
    ELSE RoundDiv(DigitsToInt(s), Pow10(Len(s) - 4)))

\* the position of the first "." in s, or 0
DotAt(s) == IF \E i \in 1..Len(s) : s[i] = "."
            THEN CHOOSE i \in 1..Len(s) : s[i] = "." /\ \A j \in 1..(i - 1) : s[j] # "."
            ELSE 0

\* an unsigned decimal literal: digits, with at most one "." among them
UnsignedToNumber(s0) ==
  With(s0, LAMBDA s :
  With(DotAt(s), LAMBDA d :
  With2(IF d = 0 THEN s ELSE SubSeq(s, 1, d - 1),
        IF d = 0 THEN <<>> ELSE SubSeq(s, d + 1, Len(s)), LAMBDA ip, fp :
    IF Len(ip) + Len(fp) = 0 \/ ~AllDigits(ip) \/ ~AllDigits(fp) THEN NaN
    ELSE Num(DigitsToInt(ip) * SCALE + FracToFixed(fp)))))

\* the unary + of a string (ToNumber): blank is 0, a decimal literal its value
StringToNumber(s) ==
  With(trim(s), LAMBDA b :
    IF b = <<>> THEN Num(0)
    ELSE IF Head(b) = "-" THEN NNeg(UnsignedToNumber(Tail(b)))
    ELSE IF Head(b) = "+" THEN UnsignedToNumber(Tail(b))
    ELSE UnsignedToNumber(b))

\* ToNumber of any value, as the arithmetic and relational operators apply it
ToNumber(x0) ==
  With(x0, LAMBDA x :
    IF x.t = "number" THEN x
    ELSE IF x.t = "string" THEN StringToNumber(x.s)
    ELSE IF x.t = "boolean" THEN Num(x.v * SCALE)
    ELSE IF x.t = "object" THEN Num(0)
    ELSE NaN)

\* parseFloat: a number as it is; of a string, the longest decimal literal that
\* starts it, after leading blanks; NaN for anything else
RECURSIVE DigitRun(_)
DigitRun(s0) ==
  With(s0, LAMBDA s : IF s # <<>> /\ IsDigit(Head(s)) THEN 1 + DigitRun(Tail(s)) ELSE 0)

\* the decimal literal that starts the unsigned string u, as a number
LiteralPrefix(u) ==
  With(DigitRun(u), LAMBDA ni :
  With(IF ni < Len(u) /\ u[ni + 1] = "." THEN DigitRun(SubSeq(u, ni + 2, Len(u))) ELSE 0,
       LAMBDA nf :
    UnsignedToNumber(IF nf > 0 THEN SubSeq(u, 1, ni + 1 + nf) ELSE SubSeq(u, 1, ni))))

parseFloat(x0) ==
  With(x0, LAMBDA x :
    IF x.t = "number" THEN x
    ELSE IF x.t # "string" THEN NaN
    ELSE With(TrimLeft(x.s), LAMBDA b :
           IF b # <<>> /\ Head(b) = "-" THEN NNeg(LiteralPrefix(Tail(b)))
           ELSE IF b # <<>> /\ Head(b) = "+" THEN LiteralPrefix(Tail(b))
           ELSE LiteralPrefix(b)))

\* the UTF-16 code of the characters the model's strings are made of
CharCode(c) ==
  IF IsDigit(c) THEN 48 + DigitVal(c)
  ELSE IF c = " " THEN 32
  ELSE IF c = "+" THEN 43
  ELSE IF c = "-" THEN 45
  ELSE IF c = "." THEN 46
  ELSE 97

\* a < b for strings: code unit by code unit, a proper prefix first
RECURSIVE StrLt(_, _)
StrLt(a0, b0) ==
  With2(a0, b0, LAMBDA a, b :
    IF b = <<>> THEN FALSE
    ELSE IF a = <<>> THEN TRUE
    ELSE IF CharCode(Head(a)) # CharCode(Head(b))
         THEN CharCode(Head(a)) < CharCode(Head(b))
    ELSE StrLt(Tail(a), Tail(b)))

\* the relational operators >= and <=: two strings are compared as strings,
\* anything else as numbers, and a comparison with NaN is false
RelGe(a, b) ==
  IF a.t = "string" /\ b.t = "string" THEN ~StrLt(a.s, b.s)
  ELSE NGe(ToNumber(a), ToNumber(b))

RelLe(a, b) ==
  IF a.t = "string" /\ b.t = "string" THEN ~StrLt(b.s, a.s)
  ELSE NLe(ToNumber(a), ToNumber(b))

(***************************************************************************)
(* The outcome of a call: what it returned, or the exception it threw.     *)
(***************************************************************************)
Ok(val) == [thrown |-> "none", val |-> val]

Throw(e) == [thrown |-> e, val |-> Undefined]

(***************************************************************************)
(* Number.prototype.toRad, toDeg and toPrecisionFixed.                     *)
(***************************************************************************)
\* whether x.toRad(), x.toDeg() and x.toPrecisionFixed() can be called: the
\* methods are added to Number.prototype alone
HasNumberMethods(x) == typeof(x) = "number"

toRad(x) == NDiv(NMul(x, Num(PI)), IntNum(180))

toDeg(x) == NDiv(NMul(x, IntNum(180)), Num(PI))

\* Math.ceil(Math.log(numb)*Math.LOG10E) for a fixed-point numb > 0: the least k
\* with numb <= 10^k, except where the IEEE-754 product falls just above the
\* integer (it is -0.9999999999999999 for 0.1, and alike for 0.01 and 0.0001)
RECURSIVE Log10CeilFrom(_, _)
Log10CeilFrom(n0, k0) ==
  With2(n0, k0, LAMBDA n, k : IF n <= Pow10(k + 4) THEN k ELSE Log10CeilFrom(n, k + 1))

Log10Ceil(n0) ==
  With(n0, LAMBDA n :
    IF n \in {1, 100, 1000} THEN Log10CeilFrom(n, -4) + 1 ELSE Log10CeilFrom(n, -4))

\* Math.round(numb * Math.pow(10, e)) for a fixed-point numb >= 0, as an integer
RoundPow10(n0, e0) ==
  With2(n0, e0, LAMBDA n, e :
    IF e >= 0 THEN (n * Pow10(e) + SCALE \div 2) \div SCALE
    ELSE (n + (SCALE * Pow10(-e)) \div 2) \div (SCALE * Pow10(-e)))

\* String(n) for an integer n >= 0
RECURSIVE IntToString(_)
IntToString(n0) ==
  With(n0, LAMBDA n :
    IF n < 10 THEN <<Digits[n + 1]>>
    ELSE Append(IntToString(n \div 10), Digits[(n % 10) + 1]))

\* a faulty variant of Zeros, one zero short: the loop "while (precision--)"
\* written as "while (--precision)"
ZerosOneShort(n) == [i \in 1..(n - 1) |-> "0"]

\* n zeros: the loops that add a "0" n times
Zeros(n) == [i \in 1..n |-> "0"]

\* the digits n of toPrecisionFixed with the decimal point put in: zeros added
\* and the point inserted for scale > 0, "0." and zeros put before otherwise
PlacePoint(n0, scale0) ==
  With2(n0, scale0, LAMBDA n, scale :
    IF scale > 0
    THEN With(IF scale - Len(n) > 0 THEN n \o Zeros(scale - Len(n)) ELSE n, LAMBDA pad :
           IF scale < Len(pad)
           THEN SubSeq(pad, 1, scale) \o <<".">> \o SubSeq(pad, scale + 1, Len(pad))
           ELSE pad)
    ELSE <<"0", ".">> \o Zeros(-scale) \o n)

\* this.toPrecisionFixed(precision), precision an integer >= 0.  For an infinite
\* number scale is infinite and the loop that adds zeros does not end.
toPrecisionFixed(this0, precision0) ==
  With2(this0, precision0, LAMBDA this, precision :
    IF isNaN(this) THEN Ok(Str(<<"N", "a", "N">>))
    ELSE
      With2(IF NLt(this, Num(0)) THEN NNeg(this) ELSE this,
            IF NLt(this, Num(0)) THEN <<"-">> ELSE <<>>, LAMBDA numb, sign :
        IF NEq(numb, Num(0)) THEN Ok(Str(<<"0", ".">> \o Zeros(precision)))
        ELSE IF numb.k = "inf" THEN Throw("no return")
        ELSE
          With(Log10Ceil(numb.v), LAMBDA scale :
          With(IntToString(RoundPow10(numb.v, precision - scale)), LAMBDA n :
            Ok(Str(sign \o PlacePoint(n, scale)))))))

(***************************************************************************)
(* The LngLat constructor.                                                 *)
(***************************************************************************)
DefaultRadius == 6371

Point(lat, lon, radius) == [t |-> "LngLat", _lat |-> lat, _lon |-> lon, _radius |-> radius]

\* new LngLat(lon, lat, rad).  The test that guards _lon reads typeof(lat); the
\* test of a string radius calls trim(lon), a function the file does not define
\* (it defines String.prototype.trim only), which throws a ReferenceError.
LngLat(lon0, lat0, rad0) ==
  With2(lon0, lat0, LAMBDA lon, lat :
  With(IF typeof(rad0) = "undefined" THEN IntNum(DefaultRadius) ELSE rad0, LAMBDA rad :
  With2(IF typeof(lat) = "number" THEN lat
        ELSE IF typeof(lat) = "string" /\ trim(lat.s) # <<>>
             THEN StringToNumber(lat.s) ELSE NaN,
        IF typeof(lat) = "number" THEN lon
        ELSE IF typeof(lon) = "string" /\ trim(lon.s) # <<>>
             THEN StringToNumber(lon.s) ELSE NaN, LAMBDA lat1, lon1 :
    IF typeof(rad) = "number" THEN Ok(Point(lat1, lon1, rad))
    ELSE IF typeof(rad) = "string" THEN Throw("ReferenceError")
    ELSE Ok(Point(lat1, lon1, NaN)))))

(***************************************************************************)
(* The methods of a point.  A method that calls x.toRad() on a field or an *)
(* argument throws a TypeError when x is not a number.                     *)
(***************************************************************************)
\* a faulty variant of Haversine: cos(lat1)*cos(lat1) for cos(lat1)*cos(lat2)
HaversineOneLatitude(lat1, lon1, lat2, lon2) ==
  With2(MathSin(NDiv(NSub(lat2, lat1), IntNum(2))),
        MathSin(NDiv(NSub(lon2, lon1), IntNum(2))), LAMBDA sLat, sLon :
    NAdd(NMul(sLat, sLat),
         NMul(NMul(NMul(MathCos(lat1), MathCos(lat1)), sLon), sLon)))

\* the haversine term a of distanceTo and of intersection, for angles in radians
Haversine(lat1, lon1, lat2, lon2) ==
  With2(MathSin(NDiv(NSub(lat2, lat1), IntNum(2))),
        MathSin(NDiv(NSub(lon2, lon1), IntNum(2))), LAMBDA sLat, sLon :
    NAdd(NMul(sLat, sLat),
         NMul(NMul(NMul(MathCos(lat1), MathCos(lat2)), sLon), sLon)))

\* (x + k*PI) % (2*PI) - PI, the normalisation of an angle to -PI..PI
Normalise(x, k) ==
  NSub(NMod(NAdd(x, NMul(IntNum(k), Num(PI))), NMul(IntNum(2), Num(PI))), Num(PI))

\* this.distanceTo(point, precision): precision is undefined or an integer
distanceTo(this, point, precision) ==
  IF \E x \in {this._lat, this._lon, point._lat, point._lon} : ~HasNumberMethods(x)
  THEN Throw("TypeError")
  ELSE
    With2(toRad(this._lat), toRad(this._lon), LAMBDA lat1, lon1 :
    With2(toRad(point._lat), toRad(point._lon), LAMBDA lat2, lon2 :
    With(Haversine(lat1, lon1, lat2, lon2), LAMBDA a :
    With(NMul(IntNum(2), MathAtan2(MathSqrt(a), MathSqrt(NSub(IntNum(1), a)))), LAMBDA c :
    With(NMul(ToNumber(this._radius), c), LAMBDA d :
      toPrecisionFixed(d, IF typeof(precision) = "undefined" THEN 4
                          ELSE precision.v \div SCALE))))))

\* this.midpointTo(point)
midpointTo(this, point) ==
  IF \E x \in {this._lat, this._lon, point._lat} : ~HasNumberMethods(x)
  THEN Throw("TypeError")
  ELSE
    With2(toRad(this._lat), toRad(this._lon), LAMBDA lat1, lon1 :
    With2(toRad(point._lat),
          toRad(NSub(ToNumber(point._lon), ToNumber(this._lon))), LAMBDA lat2, dLon :
    With2(NMul(MathCos(lat2), MathCos(dLon)),
          NMul(MathCos(lat2), MathSin(dLon)), LAMBDA Bx, By :
    With(NAdd(MathCos(lat1), Bx), LAMBDA cx :
    With2(MathAtan2(NAdd(MathSin(lat1), MathSin(lat2)),
                    MathSqrt(NAdd(NMul(cx, cx), NMul(By, By)))),
          NAdd(lon1, MathAtan2(By, cx)), LAMBDA lat3, lon3 :
      LngLat(toDeg(lon3), toDeg(lat3), Undefined))))))

\* this.destinationPoint(brng, dist)
destinationPoint(this, brng, dist) ==
  IF \E x \in {brng, this._lat, this._lon} : ~HasNumberMethods(x)
  THEN Throw("TypeError")
  ELSE
    With(IF typeof(dist) = "number" THEN dist
         ELSE IF typeof(dist) = "string" /\ trim(dist.s) # <<>>
              THEN StringToNumber(dist.s) ELSE NaN, LAMBDA dist1 :
    With2(NDiv(dist1, ToNumber(this._radius)), toRad(brng), LAMBDA dist2, brng1 :
    With2(toRad(this._lat), toRad(this._lon), LAMBDA lat1, lon1 :
    With(MathAsin(NAdd(NMul(MathSin(lat1), MathCos(dist2)),
                       NMul(NMul(MathCos(lat1), MathSin(dist2)), MathCos(brng1)))),
         LAMBDA lat2 :
    With(NAdd(lon1,
              MathAtan2(NMul(NMul(MathSin(brng1), MathSin(dist2)), MathCos(lat1)),
                        NSub(MathCos(dist2), NMul(MathSin(lat1), MathSin(lat2))))),
         LAMBDA lon2 :
      LngLat(toDeg(Normalise(lon2, 3)), toDeg(lat2), Undefined))))))

\* a bearing argument of LngLat.intersection: the test of a string calls trim(),
\* which the file does not define as a function
BearingArg(brng) ==
  IF typeof(brng) = "number" THEN Ok(brng)
  ELSE IF typeof(brng) = "string" THEN Throw("ReferenceError")
  ELSE Ok(NaN)

\* acos((sin(latB) - sin(latA)*cos(dist12)) / (sin(dist12)*cos(latA))), the
\* bearing from A towards B before its quadrant is settled
BearingAcos(latA, latB, dist12) ==
  MathAcos(NDiv(NSub(MathSin(latB), NMul(MathSin(latA), MathCos(dist12))),
                NMul(MathSin(dist12), MathCos(latA))))

\* the spherical triangle of LngLat.intersection: the angular distance p1-p2 and
\* the angles 2-1-3 and 1-2-3, for bearings brng1, brng2 that are numbers
IntersectionTriangle(p1, brng1, p2, brng2) ==
  With2(toRad(p1._lat), toRad(p1._lon), LAMBDA lat1, lon1 :
  With2(toRad(p2._lat), toRad(p2._lon), LAMBDA lat2, lon2 :
  With2(toRad(brng1), toRad(brng2), LAMBDA brng13, brng23 :
  With(NMul(IntNum(2), MathAsin(MathSqrt(Haversine(lat1, lon1, lat2, lon2)))),
       LAMBDA dist12 :
  With2(BearingAcos(lat1, lat2, dist12), BearingAcos(lat2, lat1, dist12),
        LAMBDA acosA, brngB :
  With2(IF isNaN(acosA) THEN Num(0) ELSE acosA,
        NGt(MathSin(NSub(lon2, lon1)), Num(0)), LAMBDA brngA, east :
  With2(IF east THEN brngA ELSE NSub(NMul(IntNum(2), Num(PI)), brngA),
        IF east THEN NSub(NMul(IntNum(2), Num(PI)), brngB) ELSE brngB,
        LAMBDA brng12, brng21 :
    [dist12 |-> dist12,
     alpha1 |-> Normalise(NSub(brng13, brng12), 1),
     alpha2 |-> Normalise(NSub(brng21, brng23), 1)])))))))

\* the point LngLat.intersection returns when it does not return null
IntersectionPoint(p1, brng1, dist12, alpha1, alpha2) ==
  With2(toRad(p1._lat), toRad(p1._lon), LAMBDA lat1, lon1 :
  With(toRad(brng1), LAMBDA brng13 :
  With(MathAcos(NAdd(NNeg(NMul(MathCos(alpha1), MathCos(alpha2))),
                     NMul(NMul(MathSin(alpha1), MathSin(alpha2)), MathCos(dist12)))),
       LAMBDA alpha3 :
  With(MathAtan2(NMul(NMul(MathSin(dist12), MathSin(alpha1)), MathSin(alpha2)),
                 NAdd(MathCos(alpha2), NMul(MathCos(alpha1), MathCos(alpha3)))),
       LAMBDA dist13 :
  With(MathAsin(NAdd(NMul(MathSin(lat1), MathCos(dist13)),
                     NMul(NMul(MathCos(lat1), MathSin(dist13)), MathCos(brng13)))),
       LAMBDA lat3 :
  With(MathAtan2(NMul(NMul(MathSin(brng13), MathSin(dist13)), MathCos(lat1)),
                 NSub(MathCos(dist13), NMul(MathSin(lat1), MathSin(lat3)))),
       LAMBDA dLon13 :
    LngLat(toDeg(Normalise(NAdd(lon1, dLon13), 1)), toDeg(lat3), Undefined)))))))

\* LngLat.intersection(p1, brng1, p2, brng2)
intersection(p1, brng1, p2, brng2) ==
  With2(BearingArg(brng1), BearingArg(brng2), LAMBDA b1, b2 :
    IF b1.thrown # "none" THEN b1
    ELSE IF b2.thrown # "none" THEN b2
    ELSE IF \E x \in {p1._lat, p1._lon, p2._lat, p2._lon} : ~HasNumberMethods(x)
    THEN Throw("TypeError")
    ELSE
      With(IntersectionTriangle(p1, b1.val, p2, b2.val), LAMBDA tri :
      With2(MathSin(tri.alpha1), MathSin(tri.alpha2), LAMBDA s1, s2 :
        IF NEq(tri.dist12, Num(0)) THEN Ok(Null)
        ELSE IF NEq(s1, Num(0)) /\ NEq(s2, Num(0)) THEN Ok(Null)
        ELSE IF NLt(NMul(s1, s2), Num(0)) THEN Ok(Null)
        ELSE IntersectionPoint(p1, b1.val, tri.dist12, tri.alpha1, tri.alpha2))))

\* lat2 of rhumbDestinationPoint as first computed: lat1 + d*cos(brng)
RhumbLat2(this, brng, dist) ==
  NAdd(toRad(this._lat),
       NMul(NDiv(parseFloat(dist), ToNumber(this._radius)), MathCos(toRad(brng))))

\* the test for a path that went past a pole
PastPole(lat0) ==
  With(lat0, LAMBDA lat2 :
    IF NGt(MathAbs(lat2), NDiv(Num(PI), IntNum(2)))
    THEN IF NGt(lat2, Num(0)) THEN NSub(Num(PI), lat2) ELSE NNeg(NSub(Num(PI), lat2))
    ELSE lat2)

\* Math.tan(lat/2 + Math.PI/4)
TanHalf(lat) == MathTan(NAdd(NDiv(lat, IntNum(2)), NDiv(Num(PI), IntNum(4))))

\* this.rhumbDestinationPoint(brng, dist)
rhumbDestinationPoint(this, brng, dist) ==
  IF \E x \in {this._lat, this._lon, brng} : ~HasNumberMethods(x)
  THEN Throw("TypeError")
  ELSE
    With(NDiv(parseFloat(dist), ToNumber(this._radius)), LAMBDA d :
    With2(toRad(this._lat), toRad(this._lon), LAMBDA lat1, lon1 :
    With2(toRad(brng), RhumbLat2(this, brng, dist), LAMBDA brng1, lat2 :
    With2(NSub(lat2, lat1), MathLog(NDiv(TanHalf(lat2), TanHalf(lat1))),
          LAMBDA dLat, dPhi :
    With(NDiv(dLat, dPhi), LAMBDA ratio :
    With(IF ~isNaN(ratio) THEN ratio ELSE MathCos(lat1), LAMBDA q :
    With(NDiv(NMul(d, MathSin(brng1)), q), LAMBDA dLon :
      LngLat(toDeg(Normalise(NAdd(lon1, dLon), 3)), toDeg(PastPole(lat2)),
             Undefined))))))))

\* this.inSquare(sw, ne)
inSquare(this, sw, ne) ==
  Ok(Bool(RelGe(this._lat, sw._lat) /\ RelLe(this._lat, ne._lat)
          /\ RelGe(this._lon, sw._lon) /\ RelLe(this._lon, ne._lon)))

\* Math.atan2(y, x) of bearingTo and of finalBearingTo: the initial bearing, in
\* radians, from the point from towards the point to
InitialBearing(from, to) ==
  With2(toRad(from._lat), toRad(to._lat), LAMBDA lat1, lat2 :
  With(toRad(NSub(ToNumber(to._lon), ToNumber(from._lon))), LAMBDA dLon :
  With2(NMul(MathSin(dLon), MathCos(lat2)),
        NSub(NMul(MathCos(lat1), MathSin(lat2)),
             NMul(NMul(MathSin(lat1), MathCos(lat2)), MathCos(dLon))), LAMBDA y, x :
    MathAtan2(y, x))))

\* a faulty variant of NormaliseBearing: the turn is not added before the
\* remainder is taken
NormaliseBearingNoTurn(brng, turn) == NMod(toDeg(brng), IntNum(360))

\* (brng.toDeg()+turn) % 360, for an angle brng in radians
NormaliseBearing(brng, turn) == NMod(NAdd(toDeg(brng), IntNum(turn)), IntNum(360))

\* this.bearingTo(point)
bearingTo(this, point) ==
  IF \E x \in {this._lat, point._lat} : ~HasNumberMethods(x)
  THEN Throw("TypeError")
  ELSE Ok(NormaliseBearing(InitialBearing(this, point), 360))

\* this.finalBearingTo(point): the initial bearing from point back to this,
\* turned by 180 degrees
finalBearingTo(this, point) ==
  IF \E x \in {this._lat, point._lat} : ~HasNumberMethods(x)
  THEN Throw("TypeError")
  ELSE Ok(NormaliseBearing(InitialBearing(point, this), 180))

\* dLon of rhumbBearingTo, taken the shorter way across the 180 degree meridian
RhumbDLon(dLon0) ==
  With(dLon0, LAMBDA dLon :
    IF NGt(MathAbs(dLon), Num(PI))
    THEN IF NGt(dLon, Num(0)) THEN NNeg(NSub(NMul(IntNum(2), Num(PI)), dLon))
         ELSE NAdd(NMul(IntNum(2), Num(PI)), dLon)
    ELSE dLon)

\* dPhi of rhumbBearingTo: Math.log(Math.tan(lat2/2+Math.PI/4)/Math.tan(lat1/2+Math.PI/4))
RhumbDPhi(lat1, lat2) == MathLog(NDiv(TanHalf(lat2), TanHalf(lat1)))

\* this.rhumbBearingTo(point)
rhumbBearingTo(this, point) ==
  IF \E x \in {this._lat, point._lat} : ~HasNumberMethods(x)
  THEN Throw("TypeError")
  ELSE
    With2(toRad(this._lat), toRad(point._lat), LAMBDA lat1, lat2 :
    With2(toRad(NSub(ToNumber(point._lon), ToNumber(this._lon))),
          RhumbDPhi(lat1, lat2), LAMBDA dLon, dPhi :
      Ok(NormaliseBearing(MathAtan2(RhumbDLon(dLon), dPhi), 360))))

(***************************************************************************)
(* The state: the call in progress, with its arguments and its outcome, or *)
(* none.  The library is synchronous and keeps no state of its own: a call *)
(* starts when none is in progress and Return ends it.  Points are values  *)
(* the constructor returned.                                               *)
(***************************************************************************)
VARIABLES call

vars == <<call>>

\* the bounds of the model: latitudes and longitudes on a grid of NLat and NLon
\* steps either side of zero, out to latitude 80 and longitude 85, and precisions
\* up to MaxPrecision
NLat == 1

NLon == 1

MaxPrecision == 4

LatStep == 80 \div NLat

LonStep == 85 \div NLon

\* arguments of every type, for the constructor
ArgValues ==
  {IntNum(0), IntNum(10), NaN, Undefined, Null, Bool(TRUE),
   Str(<<"1", "0">>), Str(<<" ", "9", " ">>), Str(<<>>), Str(<<" ">>), Str(<<"a">>)}

RadValues ==
  {Undefined, Null, NaN, IntNum(DefaultRadius), IntNum(1),
   Str(<<"6", "3", "7", "1">>), Str(<<" ">>), Str(<<"a">>)}

\* the arguments the points of the other calls are constructed from: the grid
\* with the default radius, the prime meridian with radius 1, and arguments
\* that are no numbers
GridArgs ==
  {<<IntNum(i * LonStep), IntNum(j * LatStep), Undefined>> :
     i \in (-NLon)..NLon, j \in (-NLat)..NLat}
  \cup {<<IntNum(0), IntNum(j * LatStep), IntNum(1)>> : j \in (-NLat)..NLat}

OtherArgs ==
  {<<Str(<<"9">>), IntNum(-80), Undefined>>,
   <<Str(<<"1", "0">>), IntNum(0), Undefined>>,
   <<Str(<<"1", "1">>), IntNum(80), Undefined>>,
   <<Null, IntNum(0), Undefined>>,
   <<IntNum(0), Str(<<"a">>), Undefined>>,
   <<NaN, IntNum(0), Undefined>>}

Constructed(args) == {LngLat(a[1], a[2], a[3]).val : a \in args}

Points == Constructed(GridArgs \cup OtherArgs)

\* the points with the default radius
EarthPoints == {p \in Points : p._radius = IntNum(DefaultRadius)}

\* the points with the default radius that lie on the equator
EquatorPoints == {p \in EarthPoints : p._lat = IntNum(0)}

\* the points of the bearing calls: the points with the default radius, the
\* south pole on two meridians and a latitude past the north pole, which the
\* constructor accepts
PoleArgs ==
  {<<IntNum(0), IntNum(-90), Undefined>>,
   <<IntNum(NLon * LonStep), IntNum(-90), Undefined>>,
   <<IntNum(0), IntNum(100), Undefined>>}

BearingPoints == EarthPoints \cup Constructed(PoleArgs)

Precisions == {Undefined} \cup {IntNum(i) : i \in 1..MaxPrecision}

Bearings == {IntNum(0), IntNum(45), IntNum(90), IntNum(180), IntNum(225), NaN, Undefined,
             Str(<<"4", "5">>)}

\* the bearings of LngLat.intersection: numbers, a string and an omitted one
IntersectionBearings ==
  {IntNum(0), IntNum(45), IntNum(315), Undefined, Str(<<"4", "5">>)}

Distances == {IntNum(0), IntNum(1000), IntNum(2224), Str(<<"1", "0", "0", "0">>), Undefined}

\* the numbers formatted directly: 1, 10, 1000, 9.9996, 1234.5678, 0.0123, 5.5,
\* 0.5, 99.95, 0.1, 20017 and their negatives, zero and NaN
FormatValues ==
  {Num(s * n) : s \in {1, -1},
                n \in {10000, 100000, 10000000, 99996, 12345678, 123, 55000, 5000,
                       999500, 1000, 200170000, 0}}
  \cup {NaN}

Idle == [op |-> "none"]

Init == call = Idle

New ==
  /\ call = Idle
  /\ \E lon \in ArgValues, lat \in ArgValues, rad \in RadValues :
       call' = [op |-> "new", lon |-> lon, lat |-> lat, rad |-> rad,
             out |-> LngLat(lon, lat, rad)]

DistanceTo ==
  /\ call = Idle
  /\ \E this \in Points, point \in Points, precision \in Precisions :
       call' = [op |-> "distanceTo", this |-> this, point |-> point,
             precision |-> precision, out |-> distanceTo(this, point, precision)]

MidpointTo ==
  /\ call = Idle
  /\ \E this \in Points, point \in Points :
       call' = [op |-> "midpointTo", this |-> this, point |-> point,
             out |-> midpointTo(this, point)]

DestinationPoint ==
  /\ call = Idle
  /\ \E this \in Points, brng \in Bearings, dist \in Distances :
       call' = [op |-> "destinationPoint", this |-> this, brng |-> brng, dist |-> dist,
             out |-> destinationPoint(this, brng, dist)]

Intersection ==
  /\ call = Idle
  /\ \E p1 \in EarthPoints, p2 \in EquatorPoints, brng1 \in IntersectionBearings,
        brng2 \in IntersectionBearings :
       call' = [op |-> "intersection", p1 |-> p1, brng1 |-> brng1, p2 |-> p2,
             brng2 |-> brng2, out |-> intersection(p1, brng1, p2, brng2)]

RhumbDestinationPoint ==
  /\ call = Idle
  /\ \E this \in Points, brng \in Bearings, dist \in Distances :
       call' = [op |-> "rhumbDestinationPoint", this |-> this, brng |-> brng, dist |-> dist,
             out |-> rhumbDestinationPoint(this, brng, dist)]

InSquare ==
  /\ call = Idle
  /\ \E this \in Points, sw \in EarthPoints, ne \in EarthPoints :
       call' = [op |-> "inSquare", this |-> this, sw |-> sw, ne |-> ne,
             out |-> inSquare(this, sw, ne)]

ToPrecisionFixed ==
  /\ call = Idle
  /\ \E this \in FormatValues, precision \in 1..MaxPrecision :
       call' = [op |-> "toPrecisionFixed", this |-> this, precision |-> precision,
             out |-> toPrecisionFixed(this, precision)]

BearingTo ==
  /\ call = Idle
  /\ \E this \in BearingPoints, point \in BearingPoints :
       call' = [op |-> "bearingTo", this |-> this, point |-> point,
             out |-> bearingTo(this, point)]

FinalBearingTo ==
  /\ call = Idle
  /\ \E this \in BearingPoints, point \in BearingPoints :
       call' = [op |-> "finalBearingTo", this |-> this, point |-> point,
             out |-> finalBearingTo(this, point)]

RhumbBearingTo ==
  /\ call = Idle
  /\ \E this \in BearingPoints, point \in BearingPoints :
       call' = [op |-> "rhumbBearingTo", this |-> this, point |-> point,
             out |-> rhumbBearingTo(this, point)]

Return ==
  /\ call # Idle
  /\ call' = Idle

Next ==
  \/ New
  \/ DistanceTo
  \/ MidpointTo
  \/ DestinationPoint
  \/ Intersection
  \/ RhumbDestinationPoint
  \/ InSquare
  \/ ToPrecisionFixed
  \/ BearingTo
  \/ FinalBearingTo
  \/ RhumbBearingTo
  \/ Return

Spec == Init /\ [][Next]_vars


(***************************************************************************)
(* The properties.  Accepted(x) is the value the documentation says is     *)
(* kept for an argument x: a number as it is, a string that is not blank   *)
(* as the number it writes, NaN for anything else.                         *)
(***************************************************************************)
Accepted(x) ==
  IF typeof(x) = "number" THEN x
  ELSE IF typeof(x) = "string" /\ trim(x.s) # <<>> THEN StringToNumber(x.s)
  ELSE NaN

\* whether the fields of a point that are coordinates are all numbers
NumericFields(p) == HasNumberMethods(p._lat) /\ HasNumberMethods(p._lon)

\* whether the coordinates and the radius of a point are all finite numbers
FinitePoint(p) == IsFinite(p._lat) /\ IsFinite(p._lon) /\ IsFinite(p._radius)

\* C1: the constructor validates latitude and longitude independently: each
\* field holds the accepted value of its own argument, whatever the type of the
\* other argument.
C1_FieldsValidatedIndependently ==
  (call.op = "new" /\ call.out.thrown = "none")
    => /\ call.out.val._lat = Accepted(call.lat)
       /\ call.out.val._lon = Accepted(call.lon)

\* C1: new LngLat("10", 0) returns: a string longitude beside a numeric latitude
C1_StringLonBesideNumericLat ==
  /\ call.op = "new"
  /\ call.lon = Str(<<"1", "0">>)
  /\ call.lat = IntNum(0)
  /\ call.out.thrown = "none"
  /\ call.out.val._lon = Str(<<"1", "0">>)

\* C2: the point midpointTo and destinationPoint return has the radius of the
\* point the method was called on.
C2_RadiusInherited ==
  (call.op \in {"midpointTo", "destinationPoint"} /\ call.out.thrown = "none")
    => call.out.val._radius = call.this._radius

\* C2: midpointTo on a point of radius 1 returns a point of radius 6371
C2_MidpointOfUnitSphere ==
  /\ call.op = "midpointTo"
  /\ call.this._radius = IntNum(1)
  /\ call.out.thrown = "none"
  /\ call.out.val._radius = IntNum(DefaultRadius)

\* C3: intersection returns null exactly when the points coincide, or the sines
\* of alpha1 and alpha2 are both zero, or they have opposite signs; in every
\* other case it returns a point, and that point has the default radius.  The
\* bearings are read as the documentation accepts them.
C3_NullInThreeCasesElsePoint ==
  (call.op = "intersection" /\ NumericFields(call.p1) /\ NumericFields(call.p2))
    => LET tri == IntersectionTriangle(call.p1, Accepted(call.brng1),
                                       call.p2, Accepted(call.brng2))
           s1  == MathSin(tri.alpha1)
           s2  == MathSin(tri.alpha2)
           none == \/ NEq(tri.dist12, Num(0))
                   \/ NEq(s1, Num(0)) /\ NEq(s2, Num(0))
                   \/ NLt(NMul(s1, s2), Num(0))
       IN  /\ call.out.thrown = "none"
           /\ none => call.out.val = Null
           /\ ~none => /\ call.out.val.t = "LngLat"
                       /\ call.out.val._radius = IntNum(DefaultRadius)

\* C3: intersection of a point with itself, the first bearing a string, throws
C3_CoincidentPointsStringBearing ==
  /\ call.op = "intersection"
  /\ NumericFields(call.p1)
  /\ call.p1 = call.p2
  /\ typeof(call.brng1) = "string"
  /\ call.out.thrown = "ReferenceError"

\* the number of decimal digits of an integer n > 0
RECURSIVE NumDigits(_)
NumDigits(n) == IF n < 10 THEN 1 ELSE 1 + NumDigits(n \div 10)

\* the integer n > 0 rounded to p significant digits, a half rounded up
RoundSig(n, p) ==
  IF NumDigits(n) > p
  THEN RoundDiv(n, Pow10(NumDigits(n) - p)) * Pow10(NumDigits(n) - p)
  ELSE n

\* C4: for a finite number v other than zero and a precision p >= 1,
\* v.toPrecisionFixed(p) returns a decimal string whose value is v rounded to p
\* significant digits, with the sign of v.
C4_RoundedToSignificantDigits ==
  (call.op = "toPrecisionFixed" /\ IsFinite(call.this) /\ call.this.v # 0)
    => /\ call.out.thrown = "none"
       /\ StringToNumber(call.out.val.s)
            = Num(Sgn(call.this.v) * RoundSig(Abs(call.this.v), call.precision))

\* C4: (1).toPrecisionFixed(4) returns "0.10000"
C4_OneFormattedAsTenth ==
  /\ call.op = "toPrecisionFixed"
  /\ call.this = IntNum(1)
  /\ call.precision = 4
  /\ call.out = Ok(Str(<<"0", ".", "1", "0", "0", "0", "0">>))

\* whether the call in progress is p.distanceTo(p) with the default precision,
\* for a point p whose coordinates and radius are finite
DistanceToItself ==
  /\ call.op = "distanceTo"
  /\ call.this = call.point
  /\ FinitePoint(call.this)
  /\ typeof(call.precision) = "undefined"

\* C5, as amended: for a point p with finite latitude, longitude and radius,
\* p.distanceTo(p) with the default precision returns the string "0.0000": "0."
\* and four zeros.
C5_DistanceToItselfIsZero ==
  DistanceToItself => call.out = Ok(Str(<<"0", ".", "0", "0", "0", "0">>))

\* C5: p.distanceTo(p) has returned, for a point off the equator with radius 1
C5_DistanceToItselfReturned ==
  /\ DistanceToItself
  /\ call.this._lat = IntNum(NLat * LatStep)
  /\ call.this._radius = IntNum(1)
  /\ call.out.thrown = "none"
  /\ call.out.val.s = <<"0", ".", "0", "0", "0", "0">>

\* C5, as stated: p.distanceTo(p) with the default precision returns "0.000".
C5_DistanceToItselfThreeZeros ==
  DistanceToItself => call.out = Ok(Str(<<"0", ".", "0", "0", "0">>))

\* C6: in rhumbDestinationPoint, a latitude lat2 = lat1 + d*cos(brng) with
\* pi/2 < |lat2| <= pi is replaced by sign(lat2)*(pi - |lat2|), past the north
\* pole and past the south pole alike: the latitude returned is within -90..90
\* degrees and has the sign of lat2.
C6_PoleCrossingReflected ==
  (call.op = "rhumbDestinationPoint" /\ call.out.thrown = "none")
    => LET lat2 == RhumbLat2(call.this, call.brng, call.dist)
       IN  (IsFinite(lat2) /\ Abs(lat2.v) > HALFPI /\ Abs(lat2.v) <= PI)
             => /\ call.out.val._lat = toDeg(Num(Sgn(lat2.v) * (PI - Abs(lat2.v))))
                /\ NLe(MathAbs(call.out.val._lat), IntNum(90))
                /\ NSign(call.out.val._lat) \in {0, Sgn(lat2.v)}

\* C6: a rhumb line past the south pole returns a latitude below -90 degrees
C6_SouthPoleCrossed ==
  /\ call.op = "rhumbDestinationPoint"
  /\ call.out.thrown = "none"
  /\ call.this._lat = IntNum(-NLat * LatStep)
  /\ call.brng = IntNum(180)
  /\ NLt(RhumbLat2(call.this, call.brng, call.dist), Num(-HALFPI))
  /\ NLt(call.out.val._lat, IntNum(-90))

\* C7: the constructor never throws; the radius it stores is 6371 when the
\* argument is omitted and the accepted value of the argument otherwise.
C7_ConstructorNeverThrows ==
  call.op = "new"
    => /\ call.out.thrown = "none"
       /\ call.out.val._radius = IF typeof(call.rad) = "undefined"
                                 THEN IntNum(DefaultRadius)
                                 ELSE Accepted(call.rad)

\* C7: new LngLat(0, 0, "6371") throws a ReferenceError
C7_StringRadiusThrows ==
  /\ call.op = "new"
  /\ call.lon = IntNum(0)
  /\ call.lat = IntNum(0)
  /\ call.rad = Str(<<"6", "3", "7", "1">>)
  /\ call.out.thrown = "ReferenceError"

\* C8: intersection never throws, and gives for a bearing that is a numeric
\* string the result it gives for the equal number, for a bearing of any other
\* type the result it gives for NaN.
C8_BearingsAccepted ==
  (call.op = "intersection" /\ NumericFields(call.p1) /\ NumericFields(call.p2))
    => /\ call.out.thrown = "none"
       /\ call.out = intersection(call.p1, Accepted(call.brng1),
                                  call.p2, Accepted(call.brng2))

\* C8: intersection(p1, 45, p2, "45") for two distinct points throws
C8_StringSecondBearingThrows ==
  /\ call.op = "intersection"
  /\ NumericFields(call.p1) /\ NumericFields(call.p2)
  /\ call.p1 # call.p2
  /\ call.brng1 = IntNum(45)
  /\ call.brng2 = Str(<<"4", "5">>)
  /\ call.out.thrown = "ReferenceError"

\* whether the call in progress is p1.distanceTo(p2) for two points whose
\* coordinates and radius are finite
DistanceBetweenFinitePoints ==
  /\ call.op = "distanceTo"
  /\ FinitePoint(call.this)
  /\ FinitePoint(call.point)

\* C9, as amended: for two points with finite coordinates and the same finite
\* radius, p1.distanceTo(p2) and p2.distanceTo(p1) return the same string.
C9_SymmetricForEqualRadius ==
  (DistanceBetweenFinitePoints /\ call.this._radius = call.point._radius)
    => call.out = distanceTo(call.point, call.this, call.precision)

\* C9: the distance between two distinct points of the same radius, in two
\* hemispheres, has been returned and is not zero
C9_DistanceBetweenHemispheres ==
  /\ DistanceBetweenFinitePoints
  /\ call.this._radius = call.point._radius
  /\ call.this._lat = IntNum(NLat * LatStep)
  /\ call.point._lat = IntNum(-NLat * LatStep)
  /\ call.this._lon # call.point._lon
  /\ call.out.thrown = "none"
  /\ call.out.val.s # <<"0", ".", "0", "0", "0", "0">>
  /\ call.out = distanceTo(call.point, call.this, call.precision)

\* C9, as stated: for two points with finite coordinates and finite radius,
\* whatever the radius of each, p1.distanceTo(p2) and p2.distanceTo(p1) return
\* the same string.
C9_SymmetricForAnyRadius ==
  DistanceBetweenFinitePoints
    => call.out = distanceTo(call.point, call.this, call.precision)

\* C10: inSquare returns true exactly when sw.lat <= lat <= ne.lat and
\* sw.lon <= lon <= ne.lon, the coordinates read as numbers, and false when one
\* of the coordinates compared is NaN.
C10_InclusiveBox ==
  call.op = "inSquare"
    => call.out = Ok(Bool(/\ NLe(Accepted(call.sw._lat), Accepted(call.this._lat))
                          /\ NLe(Accepted(call.this._lat), Accepted(call.ne._lat))
                          /\ NLe(Accepted(call.sw._lon), Accepted(call.this._lon))
                          /\ NLe(Accepted(call.this._lon), Accepted(call.ne._lon))))

\* C10: the point (lon "10", lat 0) is reported outside the box from
\* (lon "9", lat -80) to (lon "11", lat 80)
C10_StringLongitudesCompared ==
  /\ call.op = "inSquare"
  /\ call.this._lon = Str(<<"1", "0">>)
  /\ call.sw._lon = Str(<<"9">>)
  /\ call.ne._lon = Str(<<"1", "1">>)
  /\ call.out = Ok(Bool(FALSE))

\* whether the coordinates of both points of the call in progress are finite
FiniteCoordinates ==
  /\ IsFinite(call.this._lat) /\ IsFinite(call.this._lon)
  /\ IsFinite(call.point._lat) /\ IsFinite(call.point._lon)

\* whether the call in progress returned a number that is >= 0 and < 360
ReturnedBearingInRange ==
  /\ call.out.thrown = "none"
  /\ IsFinite(call.out.val)
  /\ NGe(call.out.val, IntNum(0))
  /\ NLt(call.out.val, IntNum(360))

\* whether a latitude lies strictly between the poles
BetweenPoles(lat) == NGt(lat, IntNum(-90)) /\ NLt(lat, IntNum(90))

=============================================================================
